---- MODULE Spec2Model ----
(***************************************************************************)
(* Model of the cryptid core: ElGamal encryption over a prime-order group  *)
(* (src/src/elgamal.rs) and the three Fiat-Shamir sigma proofs             *)
(* (src/src/zkp.rs).                                                       *)
(*                                                                         *)
(* The group (crate::curve), the scalar field (crate::Scalar) and the      *)
(* hasher (crate::Hasher) are not part of the two source files.  They are  *)
(* modelled as the cyclic group Z_q written additively: a group element is *)
(* represented by its discrete logarithm with respect to the generator, a  *)
(* scalar by its residue, and q is a small prime.                          *)
(***************************************************************************)
EXTENDS Integers, Sequences, FiniteSets, TLC

VARIABLES
    kp,        \* KeyPair {x_i, y_i} of the ElGamal scenario, or None
    enc,       \* enc[i]: i-th PublicKey::encrypt call: its inputs m, r and its result ct
    der,       \* ciphertext derived by Ciphertext::add or PublicKey::rerand, or None
    dec,       \* result of the last Ciphertext::decrypt call, or None
    auth,      \* AuthCiphertext returned by encrypt_auth (with the plaintext it was built from)
    tam,       \* AuthCiphertext rebuilt around modified contents with the old tag
    vres,      \* result of the last AuthCiphertext::verify call
    ares,      \* result of the last AuthCiphertext::decrypt call
    raw,       \* result of the last raw Ciphertext::decrypt of an AuthCiphertext's contents
    text,      \* a ciphertext in its text form (a sequence of characters), or None
    parsed,    \* result of Ciphertext::try_from(text), or None
    prf,       \* the proof object at hand, or None
    origin,    \* how prf came to be: "new" (built by new()) or "serde" (deserialized)
    tampered,  \* whether the response scalar of prf was incremented
    verdict,   \* result of the last verify() on prf, or None
    hin,       \* bytes fed to the hasher by the last challenge() call
    rng,       \* owner of the Mutex around the randomness source, 0 when free
    pc,        \* pc[t]: where caller t stands inside a draw
    fn,        \* fn[t]: which draw caller t is in: "random_power" or "random_elem", else None
    buf,       \* buf[t]: caller t's local buffer once filled, None outside a draw
    ret,       \* ret[t]: what caller t's last draw returned
    draws      \* draws[t]: number of draws caller t has started

elgamalVars == <<kp, enc, der, dec>>
authVars    == <<auth, tam, vres, ares, raw>>
textVars    == <<text, parsed>>
zkpVars     == <<prf, origin, tampered, verdict, hin>>
rngVars     == <<rng, pc, fn, buf, ret, draws>>
vars        == <<elgamalVars, authVars, textVars, zkpVars, rngVars>>

\* The absent value (Option::None, or a variable not yet set).
None == [none |-> TRUE]

(***************************************************************************)
(* Bounds of the model.                                                    *)
(***************************************************************************)
\* The group order is the OrderIdx-th prime.
OrderIdx == 3
\* Longest text handed to Ciphertext::try_from.
MaxStrLen == 5
\* Number of callers sharing one randomness source.
NumCallers == 2
\* Number of draws each caller makes.
MaxDraws == 2

Primes == <<2, 3, 5, 7, 11, 13>>

(***************************************************************************)
(* Group and scalar field (crate::curve, crate::Scalar).                   *)
(***************************************************************************)
Order == Primes[OrderIdx]

Scalar    == 0 .. (Order - 1)
CurveElem == 0 .. (Order - 1)

\* CurveElem::generator()
generator == 1
\* The neutral element of the group.
identity == 0

\* &a + &b on CurveElem
ElemAdd(a, b) == (a + b) % Order
\* &a - &b on CurveElem
ElemSub(a, b) == (a - b + Order) % Order
\* CurveElem::scaled(&self, s)
scaled(e, s) == (e * s) % Order

\* Scalar(a.0 + b.0)
ScalarAdd(a, b) == (a + b) % Order
\* Scalar(a.0 * b.0)
ScalarMul(a, b) == (a * b) % Order
\* DalekScalar::one()
ScalarOne == 1 % Order

\* CurveElem::as_bytes: canonical fixed-width encoding, two bytes, low digit first.
as_bytes(e) == <<e % 4, e \div 4>>

(***************************************************************************)
(* Hasher (crate::Hasher): bytes are absorbed one at a time into a running *)
(* digest.                                                                 *)
(***************************************************************************)
Absorb(seed, bytes) ==
    LET digest[i \in 0 .. Len(bytes)] ==
            IF i = 0 THEN seed ELSE (digest[i - 1] * 31 + bytes[i] + 1) % 251
    IN  digest[Len(bytes)]

\* Hasher::sha_256() ... finish_scalar(): the digest reduced into the scalar field.
finish_scalar(bytes) == Absorb(7, bytes) % Order
\* Hasher::sha_512() ... finish(): the digest bytes.
finish(bytes) == <<Absorb(11, bytes)>>

(***************************************************************************)
(* ElGamal layer, src/src/elgamal.rs.                                      *)
(***************************************************************************)
\* CryptoContext::g_to
g_to(power) == scaled(generator, power)

\* KeyPair::new, given the scalar random_power returned
KeyPair_new(x_i) == [x_i |-> x_i, y_i |-> g_to(x_i)]

\* PublicKey::encrypt
PublicKey_encrypt(y, m, r) ==
    [c1 |-> g_to(r), c2 |-> ElemAdd(m, scaled(y, r))]

\* A rerand that forgets the second component.
PublicKey_rerand_c1_only(y, ct, r) ==
    [c1 |-> ElemAdd(ct.c1, g_to(r)), c2 |-> ct.c2]

\* PublicKey::rerand
PublicKey_rerand(y, ct, r) ==
    [c1 |-> ElemAdd(ct.c1, g_to(r)), c2 |-> ElemAdd(ct.c2, scaled(y, r))]

\* An add that combines only the second components.
Ciphertext_add_c2_only(lhs, rhs) ==
    [c1 |-> lhs.c1, c2 |-> ElemAdd(lhs.c2, rhs.c2)]

\* Ciphertext::add
Ciphertext_add(lhs, rhs) ==
    [c1 |-> ElemAdd(lhs.c1, rhs.c1), c2 |-> ElemAdd(lhs.c2, rhs.c2)]

\* A decrypt that adds the mask instead of removing it.
Ciphertext_decrypt_added(ct, secret_key) ==
    ElemAdd(ct.c2, scaled(ct.c1, secret_key))

\* Ciphertext::decrypt
Ciphertext_decrypt(ct, secret_key) ==
    ElemSub(ct.c2, scaled(ct.c1, secret_key))

\* AuthCiphertext::new
AuthCiphertext_new(ct, plaintext) ==
    [contents |-> ct, hash |-> finish(as_bytes(plaintext))]

\* PublicKey::encrypt_auth
PublicKey_encrypt_auth(y, m, r) ==
    AuthCiphertext_new(PublicKey_encrypt(y, m, r), m)

\* A verify that compares only the digests' lengths.
AuthCiphertext_verify_len(a, plaintext) ==
    Len(a.hash) = Len(finish(as_bytes(plaintext)))

\* AuthCiphertext::verify
AuthCiphertext_verify(a, plaintext) ==
    a.hash = finish(as_bytes(plaintext))

\* AuthCiphertext::decrypt: Some(plaintext) or None
AuthCiphertext_decrypt(a, secret_key) ==
    LET plaintext == Ciphertext_decrypt(a.contents, secret_key)
    IN  IF AuthCiphertext_verify(a, plaintext)
        THEN [some |-> TRUE, val |-> plaintext]
        ELSE [some |-> FALSE]

(***************************************************************************)
(* Initial state: a fresh CryptoContext, nothing generated yet.            *)
(***************************************************************************)
Callers == 1 .. NumCallers

Init ==
    /\ kp = None
    /\ enc = [i \in 1 .. 2 |-> None]
    /\ der = None
    /\ dec = None
    /\ auth = None
    /\ tam = None
    /\ vres = None
    /\ ares = None
    /\ raw = None
    /\ text = None
    /\ parsed = None
    /\ prf = None
    /\ origin = "none"
    /\ tampered = FALSE
    /\ verdict = None
    /\ hin = None
    /\ rng = 0
    /\ pc = [t \in Callers |-> "idle"]
    /\ fn = [t \in Callers |-> None]
    /\ buf = [t \in Callers |-> None]
    /\ ret = [t \in Callers |-> None]
    /\ draws = [t \in Callers |-> 0]

(***************************************************************************)
(* ElGamal scenario: one key pair, two encryptions, one derived ciphertext *)
(* (their sum, or a re-randomization of the first), and decryptions.       *)
(***************************************************************************)
\* CryptoContext::gen_elgamal_key_pair; x is the scalar random_power returned.
GenKeyPair(x) ==
    /\ kp = None
    /\ kp' = KeyPair_new(x)
    /\ UNCHANGED <<enc, der, dec, authVars, textVars, zkpVars, rngVars>>

\* pk.encrypt(&ctx, &m, &r), the i-th call
Encrypt(i, m, r) ==
    /\ kp # None
    /\ enc[i] = None
    /\ enc' = [enc EXCEPT ![i] = [m |-> m, r |-> r, ct |-> PublicKey_encrypt(kp.y_i, m, r)]]
    /\ UNCHANGED <<kp, der, dec, authVars, textVars, zkpVars, rngVars>>

\* ct1.add(&ct2)
Add ==
    /\ enc[1] # None
    /\ enc[2] # None
    /\ der = None
    /\ der' = [kind |-> "add", ct |-> Ciphertext_add(enc[1].ct, enc[2].ct)]
    /\ UNCHANGED <<kp, enc, dec, authVars, textVars, zkpVars, rngVars>>

\* pk.rerand(&ctx, &ct1, &r)
Rerand(r) ==
    /\ enc[1] # None
    /\ der = None
    /\ der' = [kind |-> "rerand", before |-> enc[1].ct, r |-> r,
               ct |-> PublicKey_rerand(kp.y_i, enc[1].ct, r)]
    /\ UNCHANGED <<kp, enc, dec, authVars, textVars, zkpVars, rngVars>>

\* enc[i].ct.decrypt(&x)
DecryptEnc(i) ==
    /\ enc[i] # None
    /\ dec' = [of |-> "enc", i |-> i, val |-> Ciphertext_decrypt(enc[i].ct, kp.x_i)]
    /\ UNCHANGED <<kp, enc, der, authVars, textVars, zkpVars, rngVars>>

\* der.ct.decrypt(&x)
DecryptDer ==
    /\ der # None
    /\ dec' = [of |-> der.kind, i |-> 0, val |-> Ciphertext_decrypt(der.ct, kp.x_i)]
    /\ UNCHANGED <<kp, enc, der, authVars, textVars, zkpVars, rngVars>>

NextElGamal ==
    \/ \E x \in Scalar : GenKeyPair(x)
    \/ \E i \in 1 .. 2, m \in CurveElem, r \in Scalar : Encrypt(i, m, r)
    \/ Add
    \/ \E r \in Scalar : Rerand(r)
    \/ \E i \in 1 .. 2 : DecryptEnc(i)
    \/ DecryptDer

SpecElGamal == Init /\ [][NextElGamal]_vars

(***************************************************************************)
(* Authenticated encryption scenario (tests test_authtag and               *)
(* test_authtag_fail).                                                     *)
(***************************************************************************)
\* pk.encrypt_auth(&ctx, &m, &m_r)
EncryptAuth(m, r) ==
    /\ kp # None
    /\ auth = None
    /\ auth' = [a |-> PublicKey_encrypt_auth(kp.y_i, m, r), m |-> m]
    /\ UNCHANGED <<kp, tam, vres, ares, raw, elgamalVars, textVars, zkpVars, rngVars>>

\* AuthCiphertext { contents: Ciphertext { c1, c2: c2 + m_dash }, hash: ct.hash.clone() }
Tamper(m_dash) ==
    /\ auth # None
    /\ tam = None
    /\ tam' = [a |-> [contents |-> [c1 |-> auth.a.contents.c1,
                                    c2 |-> ElemAdd(auth.a.contents.c2, m_dash)],
                      hash |-> auth.a.hash],
               m_dash |-> m_dash]
    /\ UNCHANGED <<kp, auth, vres, ares, raw, elgamalVars, textVars, zkpVars, rngVars>>

\* The AuthCiphertext the caller holds: the modified one once it exists.
Held == IF tam # None THEN [on |-> "tam", a |-> tam.a] ELSE [on |-> "auth", a |-> auth.a]

\* held.verify(&p)
AuthVerify(p) ==
    /\ auth # None
    /\ vres' = [on |-> Held.on, p |-> p, ok |-> AuthCiphertext_verify(Held.a, p)]
    /\ UNCHANGED <<kp, auth, tam, ares, raw, elgamalVars, textVars, zkpVars, rngVars>>

\* held.decrypt(&x)
AuthDecrypt ==
    /\ auth # None
    /\ ares' = [on |-> Held.on, res |-> AuthCiphertext_decrypt(Held.a, kp.x_i)]
    /\ UNCHANGED <<kp, auth, tam, vres, raw, elgamalVars, textVars, zkpVars, rngVars>>

\* held.contents.decrypt(&x)
RawDecrypt ==
    /\ auth # None
    /\ raw' = [on |-> Held.on, val |-> Ciphertext_decrypt(Held.a.contents, kp.x_i)]
    /\ UNCHANGED <<kp, auth, tam, vres, ares, elgamalVars, textVars, zkpVars, rngVars>>

NextAuth ==
    \/ \E x \in Scalar : GenKeyPair(x)
    \/ \E m \in CurveElem, r \in Scalar : EncryptAuth(m, r)
    \/ \E m_dash \in CurveElem : Tamper(m_dash)
    \/ \E p \in CurveElem : AuthVerify(p)
    \/ AuthDecrypt
    \/ RawDecrypt

SpecAuth == Init /\ [][NextAuth]_vars

(***************************************************************************)
(* Text form of a ciphertext, src/src/elgamal.rs 103-127.  A text is a     *)
(* sequence of characters.  AsBase64 (crate::util) encodes a group element *)
(* as one character of the base64 alphabet.                                *)
(***************************************************************************)
B64 == <<"A", "B", "C", "D", "E", "F", "G", "H", "I", "J", "K", "L", "M">>

\* CurveElem::as_base64
as_base64(e) == <<B64[e + 1]>>

\* CurveElem::try_from_base64: Ok(elem) for the encoding of a group element, else Err
try_from_base64(encoded) ==
    IF Len(encoded) = 1 /\ \E e \in CurveElem : B64[e + 1] = encoded[1]
    THEN [ok |-> TRUE, elem |-> CHOOSE e \in CurveElem : B64[e + 1] = encoded[1]]
    ELSE [ok |-> FALSE]

\* impl ToString for Ciphertext
Ciphertext_to_string(ct) == as_base64(ct.c1) \o <<":">> \o as_base64(ct.c2)

\* str::split(":"): the segments between the separators, at least one
RECURSIVE split(_)
split(value) ==
    IF \A i \in 1 .. Len(value) : value[i] # ":"
    THEN <<value>>
    ELSE LET i == CHOOSE k \in 1 .. Len(value) :
                      /\ value[k] = ":"
                      /\ \A j \in 1 .. (k - 1) : value[j] # ":"
         IN  <<SubSeq(value, 1, i - 1)>> \o split(SubSeq(value, i + 1, Len(value)))

\* A try_from that counts the segments before it decodes them.
Ciphertext_try_from_length_first(value) ==
    LET segs  == split(value)
        elems == [i \in 1 .. Len(segs) |-> try_from_base64(segs[i])]
    IN  IF Len(segs) # 2
        THEN [ok |-> FALSE, err |-> "Length"]
        ELSE IF \E i \in 1 .. Len(segs) : ~elems[i].ok
        THEN [ok |-> FALSE, err |-> "CurveElem"]
        ELSE [ok |-> TRUE, ct |-> [c1 |-> elems[1].elem, c2 |-> elems[2].elem]]

\* impl TryFrom<String> for Ciphertext
Ciphertext_try_from(value) ==
    LET segs  == split(value)
        elems == [i \in 1 .. Len(segs) |-> try_from_base64(segs[i])]
    IN  IF \E i \in 1 .. Len(segs) : ~elems[i].ok
        THEN [ok |-> FALSE, err |-> "CurveElem"]
        ELSE IF Len(segs) # 2
        THEN [ok |-> FALSE, err |-> "Length"]
        ELSE [ok |-> TRUE, ct |-> [c1 |-> elems[1].elem, c2 |-> elems[2].elem]]

\* Characters a received text is made of: two element codes, the separator,
\* and a character outside the base64 alphabet.
WireChars == {B64[1], B64[2], ":", "!"}
Texts == UNION {[1 .. n -> WireChars] : n \in 0 .. MaxStrLen}

\* ct.to_string()
Serialize ==
    /\ text = None
    /\ \E c1 \in CurveElem, c2 \in CurveElem :
           text' = [from |-> "to_string",
                    s |-> Ciphertext_to_string([c1 |-> c1, c2 |-> c2]),
                    ct |-> [c1 |-> c1, c2 |-> c2]]
    /\ UNCHANGED <<parsed, elgamalVars, authVars, zkpVars, rngVars>>

\* a text arrives from outside
Receive ==
    /\ text = None
    /\ \E s \in Texts : text' = [from |-> "wire", s |-> s]
    /\ UNCHANGED <<parsed, elgamalVars, authVars, zkpVars, rngVars>>

\* Ciphertext::try_from(text)
TryFrom ==
    /\ text # None
    /\ parsed = None
    /\ parsed' = Ciphertext_try_from(text.s)
    /\ UNCHANGED <<text, elgamalVars, authVars, zkpVars, rngVars>>

NextText ==
    \/ Serialize
    \/ Receive
    \/ TryFrom

SpecText == Init /\ [][NextText]_vars

(***************************************************************************)
(* Proof layer, src/src/zkp.rs.                                            *)
(***************************************************************************)
\* "KNOW_PLAINTEXT".as_bytes()
KNOW_PLAINTEXT_TAG == <<75, 78, 79, 87, 95, 80, 76, 65, 73, 78, 84, 69, 88, 84>>
\* "EQ_DLOGS".as_bytes()
EQ_DLOGS_TAG == <<69, 81, 95, 68, 76, 79, 71, 83>>
\* "DECRYPTION".as_bytes()
DECRYPTION_TAG == <<68, 69, 67, 82, 89, 80, 84, 73, 79, 78>>

\* The bytes PrfKnowPlaintext::challenge feeds to the hasher, in order.
PrfKnowPlaintext_hashed(g, ct, blinded_g) ==
    as_bytes(g) \o as_bytes(ct.c1) \o as_bytes(ct.c2) \o as_bytes(blinded_g)
        \o KNOW_PLAINTEXT_TAG

\* PrfKnowPlaintext::challenge
PrfKnowPlaintext_challenge(g, ct, blinded_g) ==
    finish_scalar(PrfKnowPlaintext_hashed(g, ct, blinded_g))

\* PrfKnowPlaintext::new, z the commitment scalar random_scalar returned
PrfKnowPlaintext_new(ct, r, z) ==
    LET g         == generator
        blinded_g == scaled(g, z)
        c         == PrfKnowPlaintext_challenge(g, ct, blinded_g)
    IN  [type |-> "KnowPlaintext", g |-> g, ct |-> ct, blinded_g |-> blinded_g,
         r |-> ScalarAdd(z, ScalarMul(c, r))]

\* PrfKnowPlaintext::verify
PrfKnowPlaintext_verify(p) ==
    LET c == PrfKnowPlaintext_challenge(p.g, p.ct, p.blinded_g)
    IN  scaled(p.g, p.r) = ElemAdd(p.blinded_g, scaled(p.ct.c1, c))

\* The bytes PrfEqDlogs::challenge feeds to the hasher, in order.
PrfEqDlogs_hashed(f, h, v, w, a, b) ==
    as_bytes(f) \o as_bytes(h) \o as_bytes(v) \o as_bytes(w) \o as_bytes(a)
        \o as_bytes(b) \o EQ_DLOGS_TAG

\* PrfEqDlogs::challenge
PrfEqDlogs_challenge(f, h, v, w, a, b) ==
    finish_scalar(PrfEqDlogs_hashed(f, h, v, w, a, b))

\* A new() that hashes the statement in the struct's field order (result before
\* base) while verify() hashes bases first.
PrfEqDlogs_new_field_order(base1, base2, result1, result2, power, z) ==
    LET blinded_base1 == scaled(base1, z)
        blinded_base2 == scaled(base2, z)
        c == PrfEqDlogs_challenge(result1, base1, result2, base2,
                                  blinded_base1, blinded_base2)
    IN  [type |-> "EqDlogs", result1 |-> result1, base1 |-> base1,
         result2 |-> result2, base2 |-> base2,
         blinded_base1 |-> blinded_base1, blinded_base2 |-> blinded_base2,
         r |-> ScalarAdd(z, ScalarMul(c, power))]

\* PrfEqDlogs::new
PrfEqDlogs_new(base1, base2, result1, result2, power, z) ==
    LET blinded_base1 == scaled(base1, z)
        blinded_base2 == scaled(base2, z)
        c == PrfEqDlogs_challenge(base1, base2, result1, result2,
                                  blinded_base1, blinded_base2)
    IN  [type |-> "EqDlogs", result1 |-> result1, base1 |-> base1,
         result2 |-> result2, base2 |-> base2,
         blinded_base1 |-> blinded_base1, blinded_base2 |-> blinded_base2,
         r |-> ScalarAdd(z, ScalarMul(c, power))]

\* A verify that accepts when either equation holds.
PrfEqDlogs_verify_either(p) ==
    LET c == PrfEqDlogs_challenge(p.base1, p.base2, p.result1, p.result2,
                                  p.blinded_base1, p.blinded_base2)
    IN  \/ scaled(p.base1, p.r) = ElemAdd(p.blinded_base1, scaled(p.result1, c))
        \/ scaled(p.base2, p.r) = ElemAdd(p.blinded_base2, scaled(p.result2, c))

\* PrfEqDlogs::verify
PrfEqDlogs_verify(p) ==
    LET c == PrfEqDlogs_challenge(p.base1, p.base2, p.result1, p.result2,
                                  p.blinded_base1, p.blinded_base2)
    IN  /\ scaled(p.base1, p.r) = ElemAdd(p.blinded_base1, scaled(p.result1, c))
        /\ scaled(p.base2, p.r) = ElemAdd(p.blinded_base2, scaled(p.result2, c))

\* The bytes PrfDecryption::challenge feeds to the hasher, in order.
PrfDecryption_hashed(g, ct, dec_factor, public_key) ==
    as_bytes(g) \o as_bytes(ct.c1) \o as_bytes(ct.c2) \o as_bytes(dec_factor)
        \o as_bytes(public_key) \o DECRYPTION_TAG

\* PrfDecryption::challenge
PrfDecryption_challenge(g, ct, dec_factor, public_key) ==
    finish_scalar(PrfDecryption_hashed(g, ct, dec_factor, public_key))

\* PrfDecryption::new
PrfDecryption_new(ct, dec_factor, secret, public_key, z) ==
    LET g          == generator
        blinded_g  == scaled(g, z)
        blinded_c1 == scaled(ct.c1, z)
        c          == PrfDecryption_challenge(g, ct, dec_factor, public_key)
    IN  [type |-> "Decryption", g |-> g, ct |-> ct, public_key |-> public_key,
         dec_factor |-> dec_factor, blinded_g |-> blinded_g,
         blinded_c1 |-> blinded_c1, r |-> ScalarAdd(z, ScalarMul(c, secret))]

\* PrfDecryption::verify
PrfDecryption_verify(p) ==
    LET c == PrfDecryption_challenge(p.g, p.ct, p.dec_factor, p.public_key)
    IN  /\ scaled(p.g, p.r) = ElemAdd(p.blinded_g, scaled(p.public_key, c))
        /\ scaled(p.ct.c1, p.r) = ElemAdd(p.blinded_c1, scaled(p.dec_factor, c))

\* The hasher input of the challenge() call that new() and verify() make for p.
Hashed(p) ==
    IF p.type = "KnowPlaintext" THEN PrfKnowPlaintext_hashed(p.g, p.ct, p.blinded_g)
    ELSE IF p.type = "EqDlogs"
    THEN PrfEqDlogs_hashed(p.base1, p.base2, p.result1, p.result2,
                           p.blinded_base1, p.blinded_base2)
    ELSE PrfDecryption_hashed(p.g, p.ct, p.dec_factor, p.public_key)

\* proof.verify() of whichever type p is
Verify(p) ==
    IF p.type = "KnowPlaintext" THEN PrfKnowPlaintext_verify(p)
    ELSE IF p.type = "EqDlogs" THEN PrfEqDlogs_verify(p)
    ELSE PrfDecryption_verify(p)

\* test_prf_know_plaintext_complete: enc = pk.encrypt(m, r); PrfKnowPlaintext::new(ctx, enc, r)
NewKnowPlaintext ==
    /\ prf = None
    /\ \E x \in Scalar, m \in CurveElem, r \in Scalar, z \in Scalar :
           prf' = PrfKnowPlaintext_new(PublicKey_encrypt(g_to(x), m, r), r, z)
    /\ origin' = "new"
    /\ hin' = [bytes |-> Hashed(prf')]
    /\ UNCHANGED <<tampered, verdict, elgamalVars, authVars, textVars, rngVars>>

\* test_prf_eq_dlogs_complete: f = g^x1, h = g^x2, v = f^x, w = h^x; PrfEqDlogs::new(f, h, v, w, x)
NewEqDlogs ==
    /\ prf = None
    /\ \E x1 \in Scalar, x2 \in Scalar, x \in Scalar, z \in Scalar :
           prf' = PrfEqDlogs_new(g_to(x1), g_to(x2), scaled(g_to(x1), x),
                                 scaled(g_to(x2), x), x, z)
    /\ origin' = "new"
    /\ hin' = [bytes |-> Hashed(prf')]
    /\ UNCHANGED <<tampered, verdict, elgamalVars, authVars, textVars, rngVars>>

\* test_prf_dec_complete: enc = pk.encrypt(m, r); dec = enc.c1^x; PrfDecryption::new(enc, dec, x, pk.y)
NewDecryption ==
    /\ prf = None
    /\ \E x \in Scalar, m \in CurveElem, r \in Scalar, z \in Scalar :
           LET ct == PublicKey_encrypt(g_to(x), m, r)
           IN  prf' = PrfDecryption_new(ct, scaled(ct.c1, x), x, g_to(x), z)
    /\ origin' = "new"
    /\ hin' = [bytes |-> Hashed(prf')]
    /\ UNCHANGED <<tampered, verdict, elgamalVars, authVars, textVars, rngVars>>

\* #[derive(Deserialize)] on PrfDecryption: a verifier receives a proof whose
\* fields are whatever the sender chose (g is the context's generator).
DeserializeDecryption ==
    /\ prf = None
    /\ \E c1 \in CurveElem, c2 \in CurveElem, public_key \in CurveElem,
          dec_factor \in CurveElem, blinded_g \in CurveElem,
          blinded_c1 \in CurveElem, r \in Scalar :
           prf' = [type |-> "Decryption", g |-> generator, ct |-> [c1 |-> c1, c2 |-> c2],
                   public_key |-> public_key, dec_factor |-> dec_factor,
                   blinded_g |-> blinded_g, blinded_c1 |-> blinded_c1, r |-> r]
    /\ origin' = "serde"
    /\ UNCHANGED <<tampered, verdict, hin, elgamalVars, authVars, textVars, rngVars>>

\* proof.r.0 += &DalekScalar::one()
TamperResponse ==
    /\ prf # None
    /\ origin = "new"
    /\ ~tampered
    /\ prf' = [prf EXCEPT !.r = ScalarAdd(@, ScalarOne)]
    /\ tampered' = TRUE
    /\ verdict' = None
    /\ UNCHANGED <<origin, hin, elgamalVars, authVars, textVars, rngVars>>

\* proof.verify()
RunVerify ==
    /\ prf # None
    /\ verdict = None
    /\ verdict' = [ok |-> Verify(prf)]
    /\ hin' = [bytes |-> Hashed(prf)]
    /\ UNCHANGED <<prf, origin, tampered, elgamalVars, authVars, textVars, rngVars>>

NextZkp ==
    \/ NewKnowPlaintext
    \/ NewEqDlogs
    \/ NewDecryption
    \/ DeserializeDecryption
    \/ TamperResponse
    \/ RunVerify

SpecZkp == Init /\ [][NextZkp]_vars

(***************************************************************************)
(* Randomness source, src/src/elgamal.rs 208-230: callers holding clones   *)
(* of one CryptoContext share its Arc<Mutex<SystemRandom>>.  The guard     *)
(* taken by lock() lives until the function returns, on every path.        *)
(***************************************************************************)
\* What a fill can leave in the buffer (read as a number).
FilledBytes == {1, Order + 2}

\* Scalar::from([u8; 32]): the bytes reduced into the field
ScalarFromBytes(b) == b % Order

\* a caller enters random_power or random_elem
Call(t) ==
    /\ pc[t] = "idle"
    /\ draws[t] < MaxDraws
    /\ \E f \in {"random_power", "random_elem"} : fn' = [fn EXCEPT ![t] = [name |-> f]]
    /\ pc' = [pc EXCEPT ![t] = "lock"]
    /\ draws' = [draws EXCEPT ![t] = @ + 1]
    /\ UNCHANGED <<rng, buf, ret, elgamalVars, authVars, textVars, zkpVars>>

\* let rng = self.rng.lock().unwrap();
Acquire(t) ==
    /\ pc[t] = "lock"
    /\ rng = 0
    /\ rng' = t
    /\ pc' = [pc EXCEPT ![t] = "fill"]
    /\ UNCHANGED <<fn, buf, ret, draws, elgamalVars, authVars, textVars, zkpVars>>

\* rng.fill(&mut buf) returns Ok
FillOk(t) ==
    /\ pc[t] = "fill"
    /\ \E b \in FilledBytes : buf' = [buf EXCEPT ![t] = [bytes |-> b]]
    /\ pc' = [pc EXCEPT ![t] = "filled"]
    /\ UNCHANGED <<rng, fn, ret, draws, elgamalVars, authVars, textVars, zkpVars>>

\* A failed fill that returns while the lock stays taken.
FillErr_keeps_lock(t) ==
    /\ pc[t] = "fill"
    /\ ret' = [ret EXCEPT ![t] = [ok |-> FALSE, err |-> "Unspecified"]]
    /\ pc' = [pc EXCEPT ![t] = "idle"]
    /\ fn' = [fn EXCEPT ![t] = None]
    /\ buf' = [buf EXCEPT ![t] = None]
    /\ UNCHANGED <<rng, draws, elgamalVars, authVars, textVars, zkpVars>>

\* rng.fill(&mut buf) returns Err: map_err(..)? returns early and drops the guard
FillErr(t) ==
    /\ pc[t] = "fill"
    /\ ret' = [ret EXCEPT ![t] = [ok |-> FALSE, err |-> "Unspecified"]]
    /\ rng' = 0
    /\ pc' = [pc EXCEPT ![t] = "idle"]
    /\ fn' = [fn EXCEPT ![t] = None]
    /\ buf' = [buf EXCEPT ![t] = None]
    /\ UNCHANGED <<draws, elgamalVars, authVars, textVars, zkpVars>>

\* random_power: Ok(buf.into()); the guard is dropped on return
ReturnPower(t) ==
    /\ pc[t] = "filled"
    /\ fn[t].name = "random_power"
    /\ ret' = [ret EXCEPT ![t] = [ok |-> TRUE, val |-> ScalarFromBytes(buf[t].bytes)]]
    /\ rng' = 0
    /\ pc' = [pc EXCEPT ![t] = "idle"]
    /\ fn' = [fn EXCEPT ![t] = None]
    /\ buf' = [buf EXCEPT ![t] = None]
    /\ UNCHANGED <<draws, elgamalVars, authVars, textVars, zkpVars>>

\* random_elem: s.try_into(), which yields the element or an encoding error;
\* the guard is dropped on return
ReturnElem(t) ==
    /\ pc[t] = "filled"
    /\ fn[t].name = "random_elem"
    /\ \/ ret' = [ret EXCEPT ![t] = [ok |-> TRUE, val |-> ScalarFromBytes(buf[t].bytes)]]
       \/ ret' = [ret EXCEPT ![t] = [ok |-> FALSE, err |-> "InvalidEncoding"]]
    /\ rng' = 0
    /\ pc' = [pc EXCEPT ![t] = "idle"]
    /\ fn' = [fn EXCEPT ![t] = None]
    /\ buf' = [buf EXCEPT ![t] = None]
    /\ UNCHANGED <<draws, elgamalVars, authVars, textVars, zkpVars>>

NextRng ==
    \E t \in Callers :
        \/ Call(t)
        \/ Acquire(t)
        \/ FillOk(t)
        \/ FillErr(t)
        \/ ReturnPower(t)
        \/ ReturnElem(t)

\* Every caller that can take a step of its draw eventually takes it; nothing
\* obliges a caller to start a draw.
RngFairness ==
    \A t \in Callers :
        /\ WF_vars(Acquire(t))
        /\ WF_vars(FillOk(t) \/ FillErr(t))
        /\ WF_vars(ReturnPower(t) \/ ReturnElem(t))

SpecRng == Init /\ [][NextRng]_vars /\ RngFairness

(***************************************************************************)
(* Properties.                                                             *)
(***************************************************************************)

\* C1: decrypting, with the secret x of the key pair, the ciphertext that
\* PublicKey(g^x).encrypt(m, r) returned gives back exactly m, for every x, m, r.
C1_DecryptOfEncrypt ==
    (dec # None /\ dec.of = "enc") => dec.val = enc[dec.i].m

\* C1 witness: a non-trivial encryption (x, m, r all non-zero) was decrypted to m.
C1_Witness ==
    /\ dec # None
    /\ dec.of = "enc"
    /\ kp.x_i > 1
    /\ enc[dec.i].r > 1
    /\ enc[dec.i].m # identity
    /\ enc[dec.i].ct.c2 # enc[dec.i].m
    /\ dec.val = enc[dec.i].m

\* C6: decrypting encrypt(m1, r1).add(encrypt(m2, r2)) with x gives m1 + m2.
C6_AddIsHomomorphic ==
    (dec # None /\ dec.of = "add") => dec.val = ElemAdd(enc[1].m, enc[2].m)

\* C6 witness: the sum of two different non-trivial encryptions was decrypted.
C6_Witness ==
    /\ dec # None
    /\ dec.of = "add"
    /\ kp.x_i > 1
    /\ enc[1].m # identity
    /\ enc[2].m # identity
    /\ enc[1].m # enc[2].m
    /\ enc[1].r # 0
    /\ enc[2].r # 0
    /\ enc[1].r # enc[2].r
    /\ dec.val = ElemAdd(enc[1].m, enc[2].m)

\* C7: decrypting rerand(ct, r') with x gives the same element as decrypting
\* ct with x, for every ciphertext ct and every r'.
C7_RerandKeepsPlaintext ==
    (dec # None /\ dec.of = "rerand") =>
        dec.val = Ciphertext_decrypt(der.before, kp.x_i)

\* C7 witness: a ciphertext was changed in both components by rerand and decrypted.
C7_Witness ==
    /\ dec # None
    /\ dec.of = "rerand"
    /\ kp.x_i > 1
    /\ der.r # 0
    /\ der.ct.c1 # der.before.c1
    /\ der.ct.c2 # der.before.c2
    /\ dec.val = enc[1].m

\* The plaintext the modified AuthCiphertext decrypts to.
TamperedPlaintext == ElemAdd(auth.m, tam.m_dash)

\* C5: when the contents of an AuthCiphertext are replaced by (c1, c2 + d)
\* under the old tag, and that decrypts to a plaintext other than m, then
\* verify(m + d) is false, AuthCiphertext.decrypt returns no value, and the
\* raw decrypt of the modified contents returns m + d.
C5_TamperedTagRejected ==
    (tam # None /\ Ciphertext_decrypt(tam.a.contents, kp.x_i) # auth.m) =>
        /\ (vres # None /\ vres.on = "tam" /\ vres.p = TamperedPlaintext) => ~vres.ok
        /\ (ares # None /\ ares.on = "tam") => ~ares.res.some
        /\ (raw # None /\ raw.on = "tam") => raw.val = TamperedPlaintext

\* C5 witness: all three calls were made on a modified ciphertext whose
\* plaintext changed.
C5_Witness ==
    /\ tam # None
    /\ tam.m_dash # identity
    /\ vres # None /\ vres.on = "tam" /\ vres.p = TamperedPlaintext /\ ~vres.ok
    /\ ares # None /\ ares.on = "tam" /\ ~ares.res.some
    /\ raw # None /\ raw.on = "tam" /\ raw.val = TamperedPlaintext
    /\ raw.val # auth.m

\* Number of colon-separated segments of a text.
NumSegments(value) == 1 + Cardinality({i \in 1 .. Len(value) : value[i] = ":"})

\* Whether every segment of a text is the encoding of a group element.
AllSegmentsValid(value) ==
    \A i \in 1 .. Len(split(value)) : try_from_base64(split(value)[i]).ok

\* C8 as stated: try_from on a text whose number of segments is not two fails
\* with the length error, whatever its segments are.
C8_WrongCountIsLengthError ==
    (parsed # None /\ NumSegments(text.s) # 2) =>
        (~parsed.ok /\ parsed.err = "Length")

\* C8 amended: try_from on a text whose number of segments is not two fails;
\* the error is the length error exactly when every segment is a valid
\* element encoding, and the element error when some segment is not.
C8_WrongCountFails ==
    (parsed # None /\ NumSegments(text.s) # 2) =>
        /\ ~parsed.ok
        /\ AllSegmentsValid(text.s) => parsed.err = "Length"
        /\ ~AllSegmentsValid(text.s) => parsed.err = "CurveElem"

\* C8 witness: three valid segments gave the length error.
C8_Witness ==
    /\ parsed # None
    /\ text.from = "wire"
    /\ NumSegments(text.s) = 3
    /\ AllSegmentsValid(text.s)
    /\ ~parsed.ok
    /\ parsed.err = "Length"

\* C2: a proof built by new() from a true statement and its real witness
\* verifies, for each of the three proof types and every commitment scalar z.
C2_HonestProofVerifies ==
    (origin = "new" /\ ~tampered /\ verdict # None) => verdict.ok

\* C2 witness: an equal-dlogs proof over two different non-identity bases and a
\* non-zero exponent was built and accepted.
C2_Witness ==
    /\ origin = "new"
    /\ ~tampered
    /\ verdict # None
    /\ verdict.ok
    /\ prf.type = "EqDlogs"
    /\ prf.base1 # identity
    /\ prf.base2 # identity
    /\ prf.base1 # prf.base2
    /\ prf.result1 # prf.base1
    /\ prf.result1 # identity
    /\ prf.blinded_base1 # identity

\* C3: a PrfDecryption that verify() accepts, whatever its commitments and
\* response, has a scalar x with public_key = g^x and dec_factor = ct.c1^x.
C3_AcceptedDecryptionIsHonest ==
    (prf # None /\ prf.type = "Decryption" /\ verdict # None /\ verdict.ok) =>
        \E x \in Scalar :
            /\ prf.public_key = scaled(prf.g, x)
            /\ prf.dec_factor = scaled(prf.ct.c1, x)

\* C4 as stated: after r := r + 1 on a proof built by new(), verify() is false.
C4_IncrementedResponseRejected ==
    (origin = "new" /\ tampered /\ verdict # None) => ~verdict.ok

\* Both bases of an equal-dlogs proof are the identity element.
TrivialBases(p) ==
    p.type = "EqDlogs" /\ p.base1 = identity /\ p.base2 = identity

\* C4 amended: after r := r + 1 on a proof built by new() from a true
\* statement and its witness, verify() is false, unless the proof is a
\* PrfEqDlogs whose two bases are both the identity element.
C4_IncrementedResponseRejectedUnlessTrivial ==
    (origin = "new" /\ tampered /\ verdict # None /\ ~TrivialBases(prf)) =>
        ~verdict.ok

\* C4 witness: an equal-dlogs proof with one identity base and one other
\* base was incremented and rejected.
C4_Witness ==
    /\ origin = "new"
    /\ tampered
    /\ verdict # None
    /\ ~verdict.ok
    /\ prf.type = "EqDlogs"
    /\ prf.base1 # identity
    /\ prf.base2 = identity

\* The transcripts of p's protocol that differ from p in exactly one statement
\* element or commitment.  The hasher input is a concatenation of fixed-width
\* encodings, so it separates all differing transcripts exactly when it
\* separates these.
OneFieldVariants(p) ==
    (IF p.type = "KnowPlaintext"
     THEN UNION {{[p EXCEPT !.g = v], [p EXCEPT !.ct.c1 = v], [p EXCEPT !.ct.c2 = v],
                  [p EXCEPT !.blinded_g = v]} : v \in CurveElem}
     ELSE IF p.type = "EqDlogs"
     THEN UNION {{[p EXCEPT !.base1 = v], [p EXCEPT !.base2 = v],
                  [p EXCEPT !.result1 = v], [p EXCEPT !.result2 = v],
                  [p EXCEPT !.blinded_base1 = v], [p EXCEPT !.blinded_base2 = v]}
                 : v \in CurveElem}
     ELSE UNION {{[p EXCEPT !.g = v], [p EXCEPT !.ct.c1 = v], [p EXCEPT !.ct.c2 = v],
                  [p EXCEPT !.public_key = v], [p EXCEPT !.dec_factor = v],
                  [p EXCEPT !.blinded_g = v], [p EXCEPT !.blinded_c1 = v]}
                 : v \in CurveElem})
    \ {p}

\* The domain tag of p's protocol.
TagOf(p) ==
    IF p.type = "KnowPlaintext" THEN KNOW_PLAINTEXT_TAG
    ELSE IF p.type = "EqDlogs" THEN EQ_DLOGS_TAG
    ELSE DECRYPTION_TAG

\* C9: the challenge that new() and verify() compute is hashed over every
\* statement element, every commitment and the protocol's tag: a transcript of
\* the same protocol that differs in a statement element or a commitment is
\* hashed over a different input.
C9_ChallengeCoversTranscript ==
    (prf # None /\ hin # None /\ hin.bytes = Hashed(prf)) =>
        /\ \A q \in OneFieldVariants(prf) : Hashed(q) # hin.bytes
        /\ SubSeq(hin.bytes, Len(hin.bytes) - Len(TagOf(prf)) + 1, Len(hin.bytes))
               = TagOf(prf)

\* At most one caller is inside a draw, and it is the one that owns the lock;
\* a caller outside a draw does not own the lock.
DrawIsExclusive ==
    /\ \A t \in Callers : (pc[t] \in {"fill", "filled"}) <=> (rng = t)
    /\ \A t, u \in Callers :
           (pc[t] \in {"fill", "filled"} /\ pc[u] \in {"fill", "filled"}) => t = u

====
